---- MODULE Spec2Model ----
(***************************************************************************)
(* HTTP cache of src/services/cache/index.js: cachedFetch wraps a          *)
(* transport (baseFetch) with a key/value store (cache.get / cache.set)    *)
(* and the http-cache-semantics policy (CachePolicy).                      *)
(*                                                                         *)
(* Every wrapped-fetch call is a process.  A step of the model is one      *)
(* synchronous run of JavaScript between two suspension points (an await,  *)
(* a promise callback, a timer).                                           *)
(***************************************************************************)
EXTENDS Integers, Sequences, FiniteSets, TLC

\* ------------------------------------------------------------------ bounds
MaxCalls == 2          \* wrapped-fetch calls issued in one behaviour
MaxTime == 1           \* clock ticks (freshness time units)
MaxAgeVal == 1         \* max-age the origin sends, in clock ticks
MaxClears == 1         \* clearCache calls in one behaviour

Calls == 1..MaxCalls

\* ------------------------------------------------------------------ values
Undefined == [undefined |-> TRUE]

\* URLs are sequences of tokens, so that String.includes is a real search.
DocUrl == <<"/doc", ".xml">>
FeedUrl == <<"/feed_", "without_caching", ".xml">>
Urls == {DocUrl, FeedUrl}
NoStoreMarker == <<"without_caching", ".xml">>

Methods == {"get", "POST"}
CallerCacheControl == {"", "no-cache"}
Bodies == {"A", "BB"}
\* what a failing transport call rejects with
TransportErrors == {"TypeError: Network request failed", "AbortError"}

\* String.prototype.includes
includes(s, sub) ==
  \E i \in 1..(Len(s) + 1) :
     /\ i + Len(sub) - 1 <= Len(s)
     /\ SubSeq(s, i, i + Len(sub) - 1) = sub

\* String.prototype.toUpperCase on the method names in use
toUpperCase(m) ==
  CASE m = "get" -> "GET"
    [] m = "post" -> "POST"
    [] OTHER -> m

\* Blob.size of a body
blobSize(body) ==
  CASE body = "" -> 0
    [] body = "A" -> 1
    [] body = "BB" -> 2
    [] OTHER -> 3

\* directives of a cache-control header value
ccHas(cc, directive) ==
  CASE directive = "no-store" -> cc \in {"no-store", "no-cache, no-store"}
    [] directive = "no-cache" -> cc \in {"no-cache", "no-cache, no-store"}
    [] directive = "max-age" -> cc = "max-age"
    [] OTHER -> FALSE

Max(a, b) == IF a >= b THEN a ELSE b

\* ------------------------------------------------ Policy Engine (CachePolicy)
\* new CachePolicy(req, res, {shared: false}) and toObject/fromObject
NewCachePolicy(options, response, t) ==
  [ v |-> 1,
    method |-> options.method,
    reqcc |-> options.headers.cc,
    status |-> response.status,
    resHeaders |-> response.headers,
    responseTime |-> t ]

\* a stored policy snapshot that CachePolicy.fromObject refuses
MalformedPolicy == [v |-> 0]

\* CachePolicy.fromObject throws unless the snapshot has the version it knows
fromObjectThrows(obj) == obj.v # 1

understoodStatus(status) == status = 200

storable(policy) ==
  /\ ~ccHas(policy.reqcc, "no-store")
  /\ \/ policy.method = "GET"
     \/ policy.method = "POST" /\ ccHas(policy.resHeaders.cc, "max-age")
  /\ understoodStatus(policy.status)
  /\ ~ccHas(policy.resHeaders.cc, "no-store")

maxAge(policy) ==
  IF storable(policy) /\ ccHas(policy.resHeaders.cc, "max-age")
  THEN MaxAgeVal ELSE 0

age(policy, t) == t - policy.responseTime

stale(policy, t) == maxAge(policy) <= age(policy, t)

timeToLive(policy, t) == Max(0, maxAge(policy) - age(policy, t)) * 1000

requestMatches(policy, options) == policy.method = options.method

satisfiesWithoutRevalidation(policy, options, t) ==
  /\ ~ccHas(options.headers.cc, "no-cache")
  /\ ~stale(policy, t)
  /\ requestMatches(policy, options)

responseHeaders(policy, t) ==
  [policy.resHeaders EXCEPT !.age = age(policy, t)]

revalidationHeaders(policy, options) ==
  [options.headers EXCEPT !.ifNoneMatch =
      IF requestMatches(policy, options) /\ storable(policy)
      THEN policy.resHeaders.etag ELSE ""]

revalidatedPolicy(policy, options, response, t) ==
  IF response.status = 304 /\ response.headers.etag = policy.resHeaders.etag
  THEN [ policy |-> NewCachePolicy(options,
                      [status |-> policy.status,
                       headers |-> [policy.resHeaders EXCEPT
                                      !.cc = response.headers.cc]], t),
         modified |-> FALSE ]
  ELSE [ policy |-> NewCachePolicy(options, response, t),
         modified |-> response.status # 304 ]

\* ------------------------------------------------------------- the origin
\* Responses the transport can deliver for a request.
OriginResponses(request) ==
  { [status |-> 200, body |-> b,
     headers |-> [cc |-> cc, etag |-> b, age |-> -1]] :
       b \in Bodies, cc \in {"max-age", "no-store"} }
  \cup
  ( IF request.headers.ifNoneMatch # ""
    THEN { [status |-> 304, body |-> "",
            headers |-> [cc |-> "max-age",
                         etag |-> request.headers.ifNoneMatch, age |-> -1]] }
    ELSE {} )

\* new Response(text, { headers })
NewResponse(text, headers) ==
  [status |-> 200, body |-> text, headers |-> headers]

\* ------------------------------------------------------------------ state
VARIABLES
  now,          \* the clock
  store,        \* the Cache store: url -> entry or Undefined
  pc,           \* position of each cachedFetch call
  request,      \* url and options each call was made with
  cacheValue,   \* what cache.get returned to the call
  optionsNew,   \* the options the call computed (lines 142-147)
  result,       \* the response the caller received
  fetched,      \* the transport request the call issued
  live,         \* response and policy in hand in a background continuation
  bg,           \* position of the call's background continuation
  setArgs,      \* arguments of the cache.set the call performed
  events,       \* lifecycle events dispatched for the call
  reads,        \* history: the keys cache.get was called with
  prior,        \* history: the calls that had returned when a call started
  evicted,      \* history: the keys the store has dropped
  unhandled,    \* promise rejections no handler received
  cleared       \* history: the last clearCache, the calls started before it
                \* and the calls whose cache.set completed after it

vars == << now, store, pc, request, cacheValue, optionsNew, result, fetched,
           live, bg, setArgs, events, reads, prior, evicted, unhandled,
           cleared >>

NoEvents == [revalidating |-> "none", revalidated |-> FALSE, count |-> 0]

NeverCleared == [done |-> FALSE, count |-> 0, before |-> {}, landed |-> {}]

Init ==
  /\ now = 0
  /\ store = [u \in Urls |-> Undefined]
  /\ pc = [c \in Calls |-> "idle"]
  /\ request = [c \in Calls |-> Undefined]
  /\ cacheValue = [c \in Calls |-> Undefined]
  /\ optionsNew = [c \in Calls |-> Undefined]
  /\ result = [c \in Calls |-> Undefined]
  /\ fetched = [c \in Calls |-> Undefined]
  /\ live = [c \in Calls |-> Undefined]
  /\ bg = [c \in Calls |-> "none"]
  /\ setArgs = [c \in Calls |-> Undefined]
  /\ events = [c \in Calls |-> NoEvents]
  /\ reads = {}
  /\ prior = [c \in Calls |-> {}]
  /\ evicted = {}
  /\ unhandled = {}
  /\ cleared = NeverCleared

\* The store is persistent (backend AsyncStorage): the entry an earlier
\* session wrote for /doc.xml on a miss, GET answered 200 max-age with body A
WarmResponse ==
  [status |-> 200, body |-> "A",
   headers |-> [cc |-> "max-age", etag |-> "A", age |-> -1]]

WarmEntry ==
  [ text |-> WarmResponse.body,
    headers |-> WarmResponse.headers,
    size |-> blobSize(WarmResponse.body),
    policy |-> NewCachePolicy([method |-> "GET",
                               headers |-> [cc |-> "", ifNoneMatch |-> ""]],
                              WarmResponse, 0) ]

InitWarm ==
  /\ now = 0
  /\ store = [u \in Urls |-> IF u = DocUrl THEN WarmEntry ELSE Undefined]
  /\ pc = [c \in Calls |-> "idle"]
  /\ request = [c \in Calls |-> Undefined]
  /\ cacheValue = [c \in Calls |-> Undefined]
  /\ optionsNew = [c \in Calls |-> Undefined]
  /\ result = [c \in Calls |-> Undefined]
  /\ fetched = [c \in Calls |-> Undefined]
  /\ live = [c \in Calls |-> Undefined]
  /\ bg = [c \in Calls |-> "none"]
  /\ setArgs = [c \in Calls |-> Undefined]
  /\ events = [c \in Calls |-> NoEvents]
  /\ reads = {}
  /\ prior = [c \in Calls |-> {}]
  /\ evicted = {}
  /\ unhandled = {}
  /\ cleared = NeverCleared

\* ------------------------------------------------------------- cachedFetch
\* mutant of computeOptionsNew: the no-store override is not applied
computeOptionsNewNoOverride(url, options) ==
  [options EXCEPT !.method = toUpperCase(options.method)]

\* mutant of computeOptionsNew: the override forces no-cache only
computeOptionsNewNoCacheOnly(url, options) ==
  IF ~includes(url, NoStoreMarker)
  THEN [options EXCEPT !.method = toUpperCase(options.method)]
  ELSE [options EXCEPT !.method = toUpperCase(options.method),
                       !.headers.cc = "no-cache"]

\* lines 142-147: the options handed on to the hit and miss paths
computeOptionsNew(url, options) ==
  IF ~includes(url, NoStoreMarker)
  THEN [options EXCEPT !.method = toUpperCase(options.method)]
  ELSE [options EXCEPT !.method = toUpperCase(options.method),
                       !.headers.cc = "no-cache, no-store"]

\* wrapFetch(cache, baseFetch)(url, options): cachedFetch starts and calls
\* cache.get(url) (line 138)
cachedFetch(c, url, options) ==
  /\ pc[c] = "idle"
  /\ \A d \in Calls : d < c => pc[d] # "idle"
  /\ pc' = [pc EXCEPT ![c] = "get"]
  /\ request' = [request EXCEPT ![c] = [url |-> url, options |-> options]]
  /\ reads' = reads \cup {url}
  /\ prior' = [prior EXCEPT ![c] = {d \in Calls : pc[d] = "returned"}]
  /\ UNCHANGED << evicted, unhandled, cleared, now, store, cacheValue, optionsNew,
                  result, fetched, live, bg, setArgs, events >>

\* handleCacheMiss, line 34: the transport call is issued
handleCacheMiss(c, url, options) ==
  /\ pc' = [pc EXCEPT ![c] = "fetch"]
  /\ fetched' = [fetched EXCEPT ![c] = [url |-> url, options |-> options]]
  /\ UNCHANGED << result, live, bg, events >>

\* the response revalidateCacheHit returns (line 107)
staleResponse(text, headers) == NewResponse(text, headers)

\* mutant of revalidateCacheHit: the function returns the promise chain of
\* baseFetch, so the caller waits for the revalidation
revalidateCacheHitChained(c, url, value, options) ==
  LET policy == value.policy
      revalidationOptions ==
        [options EXCEPT !.headers = revalidationHeaders(policy, options)]
  IN /\ events' = [events EXCEPT ![c].revalidating = "scheduled"]
     /\ fetched' = [fetched EXCEPT
                      ![c] = [url |-> url, options |-> revalidationOptions]]
     /\ bg' = [bg EXCEPT ![c] = "revalidationFetch"]
     /\ pc' = [pc EXCEPT ![c] = "revalidating"]
     /\ UNCHANGED << result, live >>

\* mutant of revalidateCacheHit: single-flight, a stale hit issues no fetch
\* while another revalidation of the same URL is in flight
revalidateCacheHitSingleFlight(c, url, value, options) ==
  LET policy == value.policy
      revalidationOptions ==
        [options EXCEPT !.headers = revalidationHeaders(policy, options)]
      headers == responseHeaders(policy, now)
      inFlight == \E d \in Calls : /\ d # c
                                   /\ bg[d] = "revalidationFetch"
                                   /\ request[d].url = url
  IN /\ result' = [result EXCEPT ![c] = staleResponse(value.text, headers)]
     /\ pc' = [pc EXCEPT ![c] = "returned"]
     /\ IF inFlight
        THEN UNCHANGED << events, fetched, bg >>
        ELSE /\ events' = [events EXCEPT ![c].revalidating = "scheduled"]
             /\ fetched' = [fetched EXCEPT ![c] =
                              [url |-> url, options |-> revalidationOptions]]
             /\ bg' = [bg EXCEPT ![c] = "revalidationFetch"]
     /\ UNCHANGED live

\* revalidateCacheHit, lines 68-78 and 107
revalidateCacheHit(c, url, value, options) ==
  LET policy == value.policy
      revalidationOptions ==
        [options EXCEPT !.headers = revalidationHeaders(policy, options)]
      headers == responseHeaders(policy, now)
  IN /\ events' = [events EXCEPT ![c].revalidating = "scheduled"]
     /\ fetched' = [fetched EXCEPT
                      ![c] = [url |-> url, options |-> revalidationOptions]]
     /\ bg' = [bg EXCEPT ![c] = "revalidationFetch"]
     /\ result' = [result EXCEPT ![c] = staleResponse(value.text, headers)]
     /\ pc' = [pc EXCEPT ![c] = "returned"]
     /\ UNCHANGED live

\* CachePolicy.fromObject throws at line 118: handleCacheHit is called inside
\* the async cachedFetch, whose promise rejects with the error
fromObjectThrown(c) ==
  /\ pc' = [pc EXCEPT ![c] = "rejected"]
  /\ result' = [result EXCEPT ![c] = [error |-> "Error: Reinitialized"]]
  /\ UNCHANGED << fetched, live, bg, events >>

\* mutant of handleCacheHit: the freshness test is skipped
handleCacheHitAlwaysRevalidates(c, url, value, options) ==
  IF fromObjectThrows(value.policy)
  THEN fromObjectThrown(c)
  ELSE revalidateCacheHit(c, url, value, options)

\* handleCacheHit, lines 117-129
handleCacheHit(c, url, value, options) ==
  IF fromObjectThrows(value.policy)
  THEN fromObjectThrown(c)
  ELSE IF satisfiesWithoutRevalidation(value.policy, options, now)
  THEN /\ result' = [result EXCEPT ![c] =
                       NewResponse(value.text,
                                   responseHeaders(value.policy, now))]
       /\ pc' = [pc EXCEPT ![c] = "returned"]
       /\ UNCHANGED << fetched, live, bg, events >>
  ELSE revalidateCacheHit(c, url, value, options)

\* cache.get resolves and cachedFetch runs on (lines 138-153)
cacheGetResolve(c) ==
  /\ pc[c] = "get"
  /\ LET url == request[c].url
         value == store[url]
         options == computeOptionsNew(url, request[c].options)
     IN /\ cacheValue' = [cacheValue EXCEPT ![c] = value]
        /\ optionsNew' = [optionsNew EXCEPT ![c] = options]
        /\ IF value # Undefined
           THEN handleCacheHit(c, url, value, options)
           ELSE handleCacheMiss(c, url, options)
  /\ UNCHANGED << reads, prior, evicted, unhandled, cleared >>
  /\ UNCHANGED << now, store, request, setArgs >>

\* cache.get rejects (store unavailable): the await at line 138 throws and
\* the promise of cachedFetch rejects
cacheGetReject(c) ==
  /\ pc[c] = "get"
  /\ pc' = [pc EXCEPT ![c] = "rejected"]
  /\ result' = [result EXCEPT ![c] = [error |-> "store"]]
  /\ UNCHANGED << reads, prior, evicted, unhandled, cleared >>
  /\ UNCHANGED << now, store, request, cacheValue, optionsNew, fetched, live,
                  bg, setArgs, events >>

\* --------------------------------------------------------- handleCacheMiss
\* the .then callback of baseFetch, lines 34-43
baseFetchResolve(c, response) ==
  /\ pc[c] = "fetch"
  /\ LET cachePolicy == NewCachePolicy(optionsNew[c], response, now)
     IN IF ~storable(cachePolicy)
        THEN /\ result' = [result EXCEPT ![c] = response]
             /\ pc' = [pc EXCEPT ![c] = "returned"]
             /\ live' = [live EXCEPT ![c] = [response |-> response]]
        ELSE /\ pc' = [pc EXCEPT ![c] = "text"]
             /\ live' = [live EXCEPT ![c] =
                           [response |-> response, policy |-> cachePolicy]]
             /\ UNCHANGED result
  /\ UNCHANGED << reads, prior, evicted, unhandled, cleared >>
  /\ UNCHANGED << now, store, request, cacheValue, optionsNew, fetched, bg,
                  setArgs, events >>

\* mutant of baseFetchReject: the failure is caught and the call answers
\* with an error of the cache
baseFetchRejectWrapped(c, error) ==
  /\ pc[c] = "fetch"
  /\ pc' = [pc EXCEPT ![c] = "rejected"]
  /\ result' = [result EXCEPT ![c] = [error |-> "cache miss failed"]]
  /\ live' = [live EXCEPT ![c] = [rejection |-> error]]
  /\ UNCHANGED << reads, prior, evicted, unhandled, cleared >>
  /\ UNCHANGED << now, store, request, cacheValue, optionsNew, fetched, bg,
                  setArgs, events >>

\* baseFetch rejects on the miss path (line 34): the .then callback is
\* skipped and the promise handleCacheMiss returns rejects with the same error
baseFetchReject(c, error) ==
  /\ pc[c] = "fetch"
  /\ pc' = [pc EXCEPT ![c] = "rejected"]
  /\ result' = [result EXCEPT ![c] = [error |-> error]]
  /\ live' = [live EXCEPT ![c] = [rejection |-> error]]
  /\ UNCHANGED << reads, prior, evicted, unhandled, cleared >>
  /\ UNCHANGED << now, store, request, cacheValue, optionsNew, fetched, bg,
                  setArgs, events >>

\* mutant of textResolve: the blob callback is awaited before the response
\* is returned
textResolveAwaitsWrite(c) ==
  /\ pc[c] = "text"
  /\ pc' = [pc EXCEPT ![c] = "write"]
  /\ bg' = [bg EXCEPT ![c] = "blob"]
  /\ UNCHANGED << reads, prior, evicted, unhandled, cleared >>
  /\ UNCHANGED << now, store, request, cacheValue, optionsNew, result,
                  fetched, live, setArgs, events >>

\* text() resolves: response.blob() is started and clonedResponse returned
\* (lines 43-45 and 57)
textResolve(c) ==
  /\ pc[c] = "text"
  /\ result' = [result EXCEPT ![c] = live[c].response]
  /\ pc' = [pc EXCEPT ![c] = "returned"]
  /\ bg' = [bg EXCEPT ![c] = "blob"]
  /\ UNCHANGED << reads, prior, evicted, unhandled, cleared >>
  /\ UNCHANGED << now, store, request, cacheValue, optionsNew, fetched, live,
                  setArgs, events >>

\* the entry of lines 46-51
missCacheValue(response, cachePolicy) ==
  [ text |-> response.body,
    headers |-> response.headers,
    size |-> blobSize(response.body),
    policy |-> cachePolicy ]

\* blob() resolves: cache.set is called (lines 45-54)
blobResolve(c) ==
  /\ bg[c] = "blob"
  /\ setArgs' = [setArgs EXCEPT ![c] =
        [ key |-> request[c].url,
          value |-> missCacheValue(live[c].response, live[c].policy),
          ttl |-> timeToLive(live[c].policy, now),
          at |-> now ]]
  /\ bg' = [bg EXCEPT ![c] = "set"]
  /\ UNCHANGED << reads, prior, evicted, unhandled, cleared >>
  /\ UNCHANGED << now, store, pc, request, cacheValue, optionsNew, result,
                  fetched, live, events >>

\* cache.set of line 54 completes
cacheSetResolve(c) ==
  /\ bg[c] = "set"
  /\ store' = [store EXCEPT ![setArgs[c].key] = setArgs[c].value]
  /\ bg' = [bg EXCEPT ![c] = "done"]
  /\ cleared' = [cleared EXCEPT !.landed = IF cleared.done THEN @ \cup {c}
                                                          ELSE @]
  /\ UNCHANGED << reads, prior, evicted, unhandled >>
  /\ UNCHANGED << now, pc, request, cacheValue, optionsNew, result, fetched,
                  live, setArgs, events >>

\* cache.set of line 54 rejects: the promise of the blob callback rejects
\* and nothing handles it
cacheSetReject(c) ==
  /\ bg[c] = "set"
  /\ bg' = [bg EXCEPT ![c] = "setFailed"]
  /\ unhandled' = unhandled \cup {[call |-> c, from |-> "cache.set"]}
  /\ UNCHANGED << reads, prior, evicted, cleared >>
  /\ UNCHANGED << now, store, pc, request, cacheValue, optionsNew, result,
                  fetched, live, setArgs, events >>

\* ------------------------------------------------------ revalidateCacheHit
\* the timer of line 75 fires
revalidatingTimer(c) ==
  /\ events[c].revalidating = "scheduled"
  /\ events' = [events EXCEPT ![c].revalidating = "dispatched"]
  /\ UNCHANGED << reads, prior, evicted, unhandled, cleared >>
  /\ UNCHANGED << now, store, pc, request, cacheValue, optionsNew, result,
                  fetched, live, bg, setArgs >>

\* mutant of revalidationResolve: the revalidation response is taken as the
\* new response whatever the outcome
revalidationResolveRawResponse(c, revalidationResponse) ==
  /\ bg[c] = "revalidationFetch"
  /\ LET revalidation == revalidatedPolicy(cacheValue[c].policy, optionsNew[c],
                                           revalidationResponse, now)
     IN live' = [live EXCEPT ![c] =
                   [ response |-> revalidationResponse,
                     policy |-> revalidation.policy,
                     modified |-> revalidation.modified,
                     revalidationResponse |-> revalidationResponse ]]
  /\ bg' = [bg EXCEPT ![c] = "timer"]
  /\ UNCHANGED << reads, prior, evicted, unhandled, cleared >>
  /\ UNCHANGED << now, store, pc, request, cacheValue, optionsNew, result,
                  fetched, setArgs, events >>

\* the .then callback of the revalidation fetch, lines 78-90 and 101
revalidationResolve(c, revalidationResponse) ==
  /\ bg[c] = "revalidationFetch"
  /\ LET revalidation == revalidatedPolicy(cacheValue[c].policy, optionsNew[c],
                                           revalidationResponse, now)
         modified == revalidation.modified
         newResponse == IF modified THEN revalidationResponse
                        ELSE NewResponse(cacheValue[c].text, result[c].headers)
     IN live' = [live EXCEPT ![c] =
                   [ response |-> newResponse,
                     policy |-> revalidation.policy,
                     modified |-> modified,
                     revalidationResponse |-> revalidationResponse ]]
  /\ bg' = [bg EXCEPT ![c] = "timer"]
  /\ UNCHANGED << reads, prior, evicted, unhandled, cleared >>
  /\ UNCHANGED << now, store, pc, request, cacheValue, optionsNew, result,
                  fetched, setArgs, events >>

\* the revalidation fetch rejects: the .then callback never runs, and the
\* promise .then returned (line 78) rejects with no handler attached
revalidationReject(c) ==
  /\ bg[c] = "revalidationFetch"
  /\ bg' = [bg EXCEPT ![c] = "fetchFailed"]
  /\ unhandled' = unhandled \cup {[call |-> c, from |-> "baseFetch"]}
  /\ UNCHANGED << reads, prior, evicted, cleared >>
  /\ UNCHANGED << now, store, pc, request, cacheValue, optionsNew, result,
                  fetched, live, setArgs, events >>

\* the entry of lines 91-96
newCacheValue(text, newResponse, policy) ==
  [ text |-> text,
    size |-> blobSize(newResponse.body),
    headers |-> newResponse.headers,
    policy |-> policy ]

\* mutant of revalidationTimer: the TTL is taken from the policy of the entry
\* that was read, not from the revalidated policy
revalidationTimerOldTtl(c) ==
  /\ bg[c] = "timer"
  /\ events[c].revalidating = "dispatched"
  /\ setArgs' = [setArgs EXCEPT ![c] =
        [ key |-> request[c].url,
          value |-> newCacheValue(cacheValue[c].text, live[c].response,
                                  live[c].policy),
          ttl |-> timeToLive(cacheValue[c].policy, now),
          at |-> now ]]
  /\ bg' = [bg EXCEPT ![c] = "revalidationSet"]
  /\ UNCHANGED << reads, prior, evicted, unhandled, cleared >>
  /\ UNCHANGED << now, store, pc, request, cacheValue, optionsNew, result,
                  fetched, live, events >>

\* mutant of revalidationTimer: a revalidation that found the entry not
\* modified schedules no write
revalidationTimerOnlyWhenModified(c) ==
  /\ bg[c] = "timer"
  /\ events[c].revalidating = "dispatched"
  /\ live[c].modified
  /\ setArgs' = [setArgs EXCEPT ![c] =
        [ key |-> request[c].url,
          value |-> newCacheValue(cacheValue[c].text, live[c].response,
                                  live[c].policy),
          ttl |-> timeToLive(live[c].policy, now),
          at |-> now ]]
  /\ bg' = [bg EXCEPT ![c] = "revalidationSet"]
  /\ UNCHANGED << reads, prior, evicted, unhandled, cleared >>
  /\ UNCHANGED << now, store, pc, request, cacheValue, optionsNew, result,
                  fetched, live, events >>

\* the timer of lines 90-101 fires (after the earlier, shorter timer of line
\* 75) and blob() resolves: cache.set is called (line 99)
revalidationTimer(c) ==
  /\ bg[c] = "timer"
  /\ events[c].revalidating = "dispatched"
  /\ setArgs' = [setArgs EXCEPT ![c] =
        [ key |-> request[c].url,
          value |-> newCacheValue(cacheValue[c].text, live[c].response,
                                  live[c].policy),
          ttl |-> timeToLive(live[c].policy, now),
          at |-> now ]]
  /\ bg' = [bg EXCEPT ![c] = "revalidationSet"]
  /\ UNCHANGED << reads, prior, evicted, unhandled, cleared >>
  /\ UNCHANGED << now, store, pc, request, cacheValue, optionsNew, result,
                  fetched, live, events >>

\* cache.set of line 99 completes and line 100 dispatches the event
revalidationSetResolve(c) ==
  /\ bg[c] = "revalidationSet"
  /\ store' = [store EXCEPT ![setArgs[c].key] = setArgs[c].value]
  /\ events' = [events EXCEPT ![c].revalidated = TRUE, ![c].count = @ + 1]
  /\ bg' = [bg EXCEPT ![c] = "done"]
  /\ cleared' = [cleared EXCEPT !.landed = IF cleared.done THEN @ \cup {c}
                                                          ELSE @]
  /\ UNCHANGED << reads, prior, evicted, unhandled >>
  /\ UNCHANGED << now, pc, request, cacheValue, optionsNew, result, fetched,
                  live, setArgs >>

\* mutant of revalidationSetReject: the event is dispatched although the
\* write failed
revalidationSetRejectDispatches(c) ==
  /\ bg[c] = "revalidationSet"
  /\ bg' = [bg EXCEPT ![c] = "setFailed"]
  /\ events' = [events EXCEPT ![c].revalidated = TRUE, ![c].count = @ + 1]
  /\ UNCHANGED << reads, prior, evicted, unhandled, cleared >>
  /\ UNCHANGED << now, store, pc, request, cacheValue, optionsNew, result,
                  fetched, live, setArgs >>

\* cache.set of line 99 rejects: the await throws, line 100 is skipped, and
\* the promise of the blob callback rejects with no handler attached
revalidationSetReject(c) ==
  /\ bg[c] = "revalidationSet"
  /\ bg' = [bg EXCEPT ![c] = "setFailed"]
  /\ unhandled' = unhandled \cup {[call |-> c, from |-> "cache.set"]}
  /\ UNCHANGED << reads, prior, evicted, cleared >>
  /\ UNCHANGED << now, store, pc, request, cacheValue, optionsNew, result,
                  fetched, live, setArgs, events >>

\* ------------------------------------------------------------- clearCache
\* clearCache, lines 179-181: the store drops every entry; nothing else is
\* touched, the pending callbacks and timers of earlier calls stay scheduled
clearCache ==
  /\ store' = [u \in Urls |-> Undefined]
  /\ cleared.count < MaxClears
  /\ cleared' = [done |-> TRUE,
                 count |-> cleared.count + 1,
                 before |-> {c \in Calls : pc[c] # "idle"},
                 landed |-> {}]
  /\ UNCHANGED << reads, prior, evicted, unhandled >>
  /\ UNCHANGED << now, pc, request, cacheValue, optionsNew, result, fetched,
                  live, bg, setArgs, events >>

\* ------------------------------------------------------------ environment
\* the store drops an entry (TTL expiry or capacity eviction)
evict(url) ==
  /\ store[url] # Undefined
  /\ store' = [store EXCEPT ![url] = Undefined]
  /\ evicted' = evicted \cup {url}
  /\ UNCHANGED << reads, prior, unhandled, cleared >>
  /\ UNCHANGED << now, pc, request, cacheValue, optionsNew, result, fetched,
                  live, bg, setArgs, events >>

\* the stored entry of a key becomes undecodable (its policy snapshot can no
\* longer be reconstructed)
corrupt(url) ==
  /\ store[url] # Undefined
  /\ ~fromObjectThrows(store[url].policy)
  /\ store' = [store EXCEPT ![url].policy = MalformedPolicy]
  /\ UNCHANGED << reads, prior, evicted, unhandled, cleared >>
  /\ UNCHANGED << now, pc, request, cacheValue, optionsNew, result, fetched,
                  live, bg, setArgs, events >>

\* time passes
tick ==
  /\ now < MaxTime
  /\ now' = now + 1
  /\ UNCHANGED << reads, prior, evicted, unhandled, cleared >>
  /\ UNCHANGED << store, pc, request, cacheValue, optionsNew, result, fetched,
                  live, bg, setArgs, events >>

Next ==
  \/ \E c \in Calls, url \in Urls, m \in Methods, cc \in CallerCacheControl :
        cachedFetch(c, url, [method |-> m,
                             headers |-> [cc |-> cc, ifNoneMatch |-> ""]])
  \/ \E c \in Calls : cacheGetResolve(c)
  \/ \E c \in Calls : cacheGetReject(c)
  \/ \E c \in Calls :
        /\ pc[c] = "fetch"
        /\ \E r \in OriginResponses(fetched[c].options) :
              baseFetchResolve(c, r)
  \/ \E c \in Calls, error \in TransportErrors : baseFetchReject(c, error)
  \/ \E c \in Calls : textResolve(c)
  \/ \E c \in Calls : blobResolve(c)
  \/ \E c \in Calls : cacheSetResolve(c)
  \/ \E c \in Calls : cacheSetReject(c)
  \/ \E c \in Calls : revalidatingTimer(c)
  \/ \E c \in Calls :
        /\ bg[c] = "revalidationFetch"
        /\ \E r \in OriginResponses(fetched[c].options) :
              revalidationResolve(c, r)
  \/ \E c \in Calls : revalidationReject(c)
  \/ \E c \in Calls : revalidationTimer(c)
  \/ \E c \in Calls : revalidationSetResolve(c)
  \/ \E c \in Calls : revalidationSetReject(c)
  \/ \E url \in Urls : evict(url)
  \/ \E url \in Urls : corrupt(url)
  \/ clearCache
  \/ tick

Spec == Init /\ [][Next]_vars

\* the steps of the program itself: every step of Next except the ones in
\* which the store loses, damages or is asked to drop its entries. Started
\* on InitWarm the miss path never writes (/doc.xml is always found and the
\* other URL is never storable), so its text, blob and cache.set steps, which
\* could not be taken, are not listed
NextReliable ==
  \/ \E c \in Calls, url \in Urls, m \in Methods, cc \in CallerCacheControl :
        cachedFetch(c, url, [method |-> m,
                             headers |-> [cc |-> cc, ifNoneMatch |-> ""]])
  \/ \E c \in Calls : cacheGetResolve(c)
  \/ \E c \in Calls : cacheGetReject(c)
  \/ \E c \in Calls :
        /\ pc[c] = "fetch"
        /\ \E r \in OriginResponses(fetched[c].options) :
              baseFetchResolve(c, r)
  \/ \E c \in Calls, error \in TransportErrors : baseFetchReject(c, error)
  \/ \E c \in Calls : revalidatingTimer(c)
  \/ \E c \in Calls :
        /\ bg[c] = "revalidationFetch"
        /\ \E r \in OriginResponses(fetched[c].options) :
              revalidationResolve(c, r)
  \/ \E c \in Calls : revalidationReject(c)
  \/ \E c \in Calls : revalidationTimer(c)
  \/ \E c \in Calls : revalidationSetResolve(c)
  \/ \E c \in Calls : revalidationSetReject(c)
  \/ tick

\* the same program started on a store that already holds an entry, the store
\* keeping what it holds
SpecWarm == InitWarm /\ [][NextReliable]_vars

\* the event loop runs every timer that is due and every callback of a
\* settled promise; the transport and the store settle every call they accept
Fairness ==
  \A c \in Calls :
     /\ WF_vars(revalidatingTimer(c))
     /\ WF_vars(\/ revalidationReject(c)
                \/ /\ bg[c] = "revalidationFetch"
                   /\ \E r \in OriginResponses(fetched[c].options) :
                         revalidationResolve(c, r))
     /\ WF_vars(revalidationTimer(c))
     /\ WF_vars(revalidationSetResolve(c) \/ revalidationSetReject(c))

\* the steps of NextReliable at one reading of the clock: no guard of the
\* revalidation chain reads the clock, it only enters the ages and the TTLs
\* that are computed
NextInstant ==
  \/ \E c \in Calls, url \in Urls, m \in Methods, cc \in CallerCacheControl :
        cachedFetch(c, url, [method |-> m,
                             headers |-> [cc |-> cc, ifNoneMatch |-> ""]])
  \/ \E c \in Calls : cacheGetResolve(c)
  \/ \E c \in Calls : cacheGetReject(c)
  \/ \E c \in Calls :
        /\ pc[c] = "fetch"
        /\ \E r \in OriginResponses(fetched[c].options) :
              baseFetchResolve(c, r)
  \/ \E c \in Calls, error \in TransportErrors : baseFetchReject(c, error)
  \/ \E c \in Calls : revalidatingTimer(c)
  \/ \E c \in Calls :
        /\ bg[c] = "revalidationFetch"
        /\ \E r \in OriginResponses(fetched[c].options) :
              revalidationResolve(c, r)
  \/ \E c \in Calls : revalidationReject(c)
  \/ \E c \in Calls : revalidationTimer(c)
  \/ \E c \in Calls : revalidationSetResolve(c)
  \/ \E c \in Calls : revalidationSetReject(c)

\* the program on a store that keeps what it holds, every scheduled step
\* eventually taken
SpecFair == InitWarm /\ [][NextInstant]_vars /\ Fairness

\* ------------------------------------------------------------- properties
\* the call read an entry and went to the origin to revalidate it
StaleHit(c) == cacheValue[c] # Undefined /\ fetched[c] # Undefined

\* the call missed, got a storable response and returned it
MissStorable(c) ==
  /\ pc[c] = "returned"
  /\ cacheValue[c] = Undefined
  /\ live[c] # Undefined
  /\ "policy" \in DOMAIN live[c]

NoStoreUrl(url) == includes(url, NoStoreMarker)

\* C1: on a stale hit the caller has its response, with the stored entry's
\* text as body, from the moment the revalidation transport call is issued:
\* the result never waits for that call, the merge or the store write.
C1_StaleServedBeforeRevalidation ==
  \A c \in Calls :
     StaleHit(c) => /\ pc[c] = "returned"
                    /\ result[c].body = cacheValue[c].text

C1_Witness ==
  \E c \in Calls :
     /\ StaleHit(c)
     /\ bg[c] = "revalidationFetch"
     /\ result[c].body = cacheValue[c].text

\* C2 (as claimed): after a storable response was returned to a caller, any
\* later call for the same URL within the freshness lifetime, with no
\* eviction in between, gets the stored body without a transport call.
C2_AnySubsequentCallServedFromStore ==
  \A c1, c2 \in Calls :
     ( /\ c1 # c2
       /\ MissStorable(c1)
       /\ c1 \in prior[c2]
       /\ pc[c2] \in {"fetch", "text", "returned"}
       /\ request[c2].url = request[c1].url
       /\ request[c1].url \notin evicted
       /\ ~stale(live[c1].policy, now) )
     => /\ fetched[c2] = Undefined
        /\ result[c2].body = result[c1].body

\* C2 (amended): once the store write of a storable response has completed, a
\* call for the same URL whose cache.get returns that entry, made with the
\* same request (same method, no no-cache request directive) within the
\* freshness lifetime, gets the stored body and the policy-reconstructed
\* headers without a transport call.
C2_FreshHitServedFromStore ==
  \A c1, c2 \in Calls :
     ( /\ c1 # c2
       /\ MissStorable(c1)
       /\ bg[c1] = "done"
       /\ pc[c2] = "returned"
       /\ request[c2].url = request[c1].url
       /\ cacheValue[c2] = setArgs[c1].value
       /\ optionsNew[c2].method = optionsNew[c1].method
       /\ ~ccHas(optionsNew[c2].headers.cc, "no-cache")
       /\ ~stale(live[c1].policy, now) )
     => /\ fetched[c2] = Undefined
        /\ result[c2].body = result[c1].body
        /\ \E t \in 0..now :
              result[c2].headers = responseHeaders(live[c1].policy, t)

C2_Witness ==
  \E c1, c2 \in Calls :
     /\ c1 # c2
     /\ MissStorable(c1)
     /\ bg[c1] = "done"
     /\ pc[c2] = "returned"
     /\ request[c2].url = request[c1].url
     /\ cacheValue[c2] = setArgs[c1].value
     /\ optionsNew[c2].method = optionsNew[c1].method
     /\ ~ccHas(optionsNew[c2].headers.cc, "no-cache")
     /\ ~stale(live[c1].policy, now)
     /\ fetched[c2] = Undefined
     /\ result[c2].body = result[c1].body

\* C3: no cache.set is performed with an entry whose policy is not storable,
\* on the miss path and on the revalidation path.
C3_NonStorableNeverWritten ==
  \A c \in Calls :
     setArgs[c] # Undefined => storable(setArgs[c].value.policy)

\* C4: when a revalidation ends modified, the entry written is the new
\* response in full: its text, its headers and its byte size.
C4_ModifiedEntryIsNewResponse ==
  \A c \in Calls :
     (StaleHit(c) /\ setArgs[c] # Undefined /\ live[c].modified)
     => LET value == setArgs[c].value
            new == live[c].revalidationResponse
        IN /\ value.text = new.body
           /\ value.headers = new.headers
           /\ value.size = blobSize(new.body)

\* C5: when a revalidation ends not modified, the entry written under the
\* same key keeps the text of the entry read before the revalidation, and its
\* size is the byte size of that text.
C5_NotModifiedKeepsText ==
  \A c \in Calls :
     (StaleHit(c) /\ setArgs[c] # Undefined /\ ~live[c].modified)
     => /\ setArgs[c].key = request[c].url
        /\ setArgs[c].value.text = cacheValue[c].text
        /\ setArgs[c].value.size = blobSize(cacheValue[c].text)

C5_Witness ==
  \E c \in Calls :
     /\ StaleHit(c)
     /\ bg[c] = "done"
     /\ ~live[c].modified
     /\ live[c].revalidationResponse.status = 304
     /\ store[request[c].url] # Undefined
     /\ store[request[c].url].text = cacheValue[c].text
     /\ store[request[c].url].policy # cacheValue[c].policy

\* C6: on a stale hit the "response-stale-revalidating" event has been
\* dispatched by the time the revalidation transport call is issued.
C6_RevalidatingEventBeforeFetch ==
  \A c \in Calls :
     StaleHit(c) => events[c].revalidating = "dispatched"

\* C7: "response-revalidated" is dispatched only once the revalidation
\* transport call has returned, the revalidated policy is computed and the
\* cache.set of the merged entry has completed; never after a failed
\* transport call or a failed store write.
C7_RevalidatedEventAfterWrite ==
  \A c \in Calls :
     events[c].revalidated
     => /\ StaleHit(c)
        /\ bg[c] = "done"
        /\ live[c] # Undefined
        /\ setArgs[c] # Undefined
        /\ setArgs[c].value.policy = live[c].policy

C7_Witness ==
  \E c \in Calls : events[c].revalidated /\ bg[c] = "done"

\* C8: cache.get is never called with a URL that matches the no-store
\* override.
C8_NoStoreUrlNeverRead ==
  \A url \in reads : ~NoStoreUrl(url)

\* C9: the store holds no entry under a URL that matches the no-store
\* override, and no cache.set is performed with such a key, whatever the
\* origin's caching headers.
C9_NoStoreUrlNeverStored ==
  /\ \A url \in Urls : NoStoreUrl(url) => store[url] = Undefined
  /\ \A c \in Calls : setArgs[c] # Undefined => ~NoStoreUrl(setArgs[c].key)

C9_Witness ==
  \E c \in Calls :
     /\ pc[c] = "returned"
     /\ NoStoreUrl(request[c].url)
     /\ request[c].options.method = "get"
     /\ ccHas(result[c].headers.cc, "max-age")
     /\ store[request[c].url] = Undefined

\* C10: every transport call for a URL that matches the no-store override
\* carries the request header cache-control: no-cache, no-store.
C10_NoStoreUrlFetchedWithNoStore ==
  \A c \in Calls :
     (fetched[c] # Undefined /\ NoStoreUrl(fetched[c].url))
     => fetched[c].options.headers.cc = "no-cache, no-store"

C10_Witness ==
  \E c \in Calls :
     /\ fetched[c] # Undefined
     /\ NoStoreUrl(fetched[c].url)
     /\ request[c].options.headers.cc = "no-cache"
     /\ fetched[c].options.headers.cc = "no-cache, no-store"

\* C11: when the transport call of the miss path rejects, the wrapped fetch
\* rejects with that same error and the call performs no cache.set, then or
\* later.
C11_MissFailurePropagatesUnchanged ==
  \A c \in Calls :
     (pc[c] = "rejected" /\ fetched[c] # Undefined)
     => /\ result[c] = [error |-> live[c].rejection]
        /\ setArgs[c] = Undefined
        /\ bg[c] = "none"

C11_Witness ==
  \E c \in Calls :
     /\ pc[c] = "rejected"
     /\ fetched[c] # Undefined
     /\ result[c] = [error |-> "AbortError"]
     /\ store[request[c].url] = Undefined

\* C12: when the transport call of a background revalidation fails, the
\* failure is swallowed (it reaches neither the caller nor the unhandled
\* rejections), the response already returned stands, the call writes nothing
\* to the store and dispatches no "response-revalidated" event.
C12_RevalidationFailureSwallowed ==
  \A c \in Calls :
     bg[c] = "fetchFailed"
     => /\ pc[c] = "returned"
        /\ result[c].body = cacheValue[c].text
        /\ setArgs[c] = Undefined
        /\ ~events[c].revalidated
        /\ \A u \in unhandled : u.call # c

\* C13: a store failure never fails a request: no call is rejected with the
\* error of a failed cache.get, and a call whose cache.set failed has
\* returned its response.
C13_StoreFailureNeverFailsRequest ==
  \A c \in Calls :
     /\ pc[c] = "rejected" => result[c] # [error |-> "store"]
     /\ bg[c] = "setFailed" => pc[c] = "returned"

\* C14: a call whose cache.get returned a malformed entry is treated as a
\* miss: it is not rejected and it fetches the resource live.
C14_MalformedEntryTreatedAsMiss ==
  \A c \in Calls :
     ( /\ pc[c] \notin {"idle", "get"}
       /\ cacheValue[c] # Undefined
       /\ fromObjectThrows(cacheValue[c].policy) )
     => /\ pc[c] # "rejected"
        /\ fetched[c] # Undefined

\* C15: the TTL of every cache.set, on the miss path and on the revalidation
\* path, is the timeToLive, in milliseconds and at the time of the write, of
\* the policy serialized into the entry being written, and is never negative.
C15_TtlIsTimeToLiveOfWrittenPolicy ==
  \A c \in Calls :
     setArgs[c] # Undefined
     => /\ setArgs[c].ttl =
             timeToLive(setArgs[c].value.policy, setArgs[c].at)
        /\ setArgs[c].ttl >= 0

\* a miss-path write with a positive TTL, and a revalidation write whose
\* policy is already past its lifetime when the timer fires
C15_Witness ==
  \E c1, c2 \in Calls :
     /\ cacheValue[c1] = Undefined
     /\ setArgs[c1] # Undefined
     /\ setArgs[c1].ttl = 1000
     /\ StaleHit(c2)
     /\ setArgs[c2] # Undefined
     /\ maxAge(setArgs[c2].value.policy)
           < age(setArgs[c2].value.policy, setArgs[c2].at)
     /\ setArgs[c2].ttl = 0

\* the call found nothing in the store and went to the origin
Miss(c) == cacheValue[c] = Undefined /\ fetched[c] # Undefined

\* C16: on a miss the caller gets the live response whether or not it is
\* storable, and for a storable one it has it by the time the store write is
\* started: the result does not wait for cache.set.
C16_MissReturnsWithoutWaitingForWrite ==
  \A c \in Calls :
     (Miss(c) /\ (pc[c] = "returned" \/ bg[c] # "none"))
     => /\ pc[c] = "returned"
        /\ result[c] = live[c].response

C16_Witness ==
  \E c1, c2 \in Calls :
     /\ Miss(c1)
     /\ bg[c1] = "set"
     /\ store[request[c1].url] = Undefined
     /\ result[c1] = live[c1].response
     /\ Miss(c2)
     /\ pc[c2] = "returned"
     /\ ~storable(NewCachePolicy(optionsNew[c2], live[c2].response, now))
     /\ result[c2] = live[c2].response

\* the time of the lookup of a call that was answered from the store
lookupTime(c) == cacheValue[c].policy.responseTime + result[c].headers.age

\* the entry the call read did not satisfy its request
StaleAtLookup(c) ==
  /\ pc[c] = "returned"
  /\ cacheValue[c] # Undefined
  /\ ~satisfiesWithoutRevalidation(cacheValue[c].policy, optionsNew[c],
                                   lookupTime(c))

\* C17: there is no single-flight deduplication: every stale hit issues its
\* own revalidation transport call, also while another revalidation of the
\* same entry is in flight, and every one whose fetch has succeeded and whose
\* timer has fired performs its own cache.set: there are as many revalidation
\* fetches as stale hits.
C17_NoSingleFlight ==
  LET staleHits == {c \in Calls : StaleAtLookup(c)}
      fetches == {c \in Calls : StaleHit(c)}
  IN /\ staleHits = fetches
     /\ Cardinality(fetches) = Cardinality(staleHits)
     /\ \A c \in staleHits :
           /\ fetched[c].url = request[c].url
           /\ bg[c] # "none"
           /\ bg[c] \in {"revalidationSet", "done", "setFailed"}
                => (setArgs[c] # Undefined /\ setArgs[c].key = request[c].url)

C17_Witness ==
  \E c1, c2 \in Calls :
     /\ c1 # c2
     /\ StaleAtLookup(c1) /\ StaleAtLookup(c2)
     /\ cacheValue[c1] = WarmEntry /\ cacheValue[c2] = WarmEntry
     /\ fetched[c1] # Undefined /\ fetched[c2] # Undefined
     /\ bg[c1] = "revalidationSet" /\ bg[c2] = "revalidationSet"
     /\ store[DocUrl] = WarmEntry

\* C19: whenever a call is answered from the store, on the fresh path or on
\* the stale path, the method of its request is the method of the request
\* recorded in the policy of the entry.
C19_StoredBodyOnlyForSameMethod ==
  \A c \in Calls :
     (pc[c] = "returned" /\ cacheValue[c] # Undefined)
     => optionsNew[c].method = cacheValue[c].policy.method

\* C20: after clearCache has completed, no cache.set of a call that started
\* before the clear lands: neither a pending miss-path write nor a delayed
\* background revalidation write.
C20_NoEarlierWriteLandsAfterClear ==
  cleared.done => cleared.landed \cap cleared.before = {}

\* C18: every background revalidation that is started finishes: its transport
\* call settles, and once it has succeeded the write is attempted and, unless
\* the store refuses it, completes with exactly one "response-revalidated"
\* event for that stale hit; no revalidation stays pending and none is dropped.
C18_RevalidationFinishes ==
  \A c \in Calls :
     /\ (bg[c] = "revalidationFetch")
           ~> (bg[c] \in {"fetchFailed", "setFailed", "done"})
     /\ (bg[c] = "timer")
           ~> (\/ bg[c] = "setFailed"
               \/ bg[c] = "done" /\ events[c].count = 1)
     /\ [](events[c].count <= 1)

C18_Witness ==
  \E c \in Calls :
     /\ StaleHit(c)
     /\ bg[c] = "done"
     /\ events[c].count = 1
     /\ ~live[c].modified
     /\ store[request[c].url] = setArgs[c].value
====
